---- MODULE Spec2Model ----
(***************************************************************************)
(* Model of the VaultSecret reconciler of mink0/vault-operator             *)
(* (controllers/vaultsecret_controller.go).                                *)
(*                                                                         *)
(* The cluster (VaultSecret requests, child Secrets, the garbage           *)
(* collector), the Vault server and the service-account token file are the *)
(* environment.  Reconcile and VaultReadSecret are modelled call by call:  *)
(* every action is the code up to and including one call to the outside    *)
(* world, so that the environment acts between the calls of an invocation. *)
(* Spec is the controller as SetupWithManager builds it (one worker);      *)
(* SpecVRS calls VaultReadSecret on its own and SpecMake SecretMake;       *)
(* SpecConc has two callers run Reconcile for one key at the same time;    *)
(* FairSpec adds a garbage collector that does run.                        *)
(***************************************************************************)
EXTENDS Integers, Sequences, FiniteSets, TLC

\* ------------------------------------------------------------------ bounds
MaxUid == 2          \* VaultSecrets ever created (UIDs 1..MaxUid)
MaxCount == 2        \* the exchanges counted per VaultSecret stop at MaxCount
MaxToken == 2        \* Vault hands out client tokens 1..MaxToken in turn

Workers == {1, 2}
Keys == {"ns/a"}
Paths == {"secret/a", "secret/b"}

\* ------------------------------------------------------- program constants
defaultJWTAuthMethod == "jwt"
\* SetupWithManager builds the controller with default options: one worker
MaxConcurrentReconciles == 1
defaultAuthPath == "kubernetes"
APIVersion == "apps.vault.op/v1"
Kind == "VaultSecret"

\* ------------------------------------------------------------------ values
NoErr == "nil"
ErrNotFound == "not found"
ErrApi == "api error"
ErrAlreadyExists == "already exists"
ErrNewClient == "vault client error"
ErrUnsupported == "unsupported Auth method"
ErrReadFile == "read jwt file error"
ErrLogin == "login error"
ErrRead == "read error"

GoodAddr == "http://vault:8200"
BadAddr == "http://[::1"

\* Spec of a VaultSecret: VaultAddress, Path, Role, AuthPath
RequestSpecs ==
    { [addr |-> GoodAddr, path |-> "secret/a", role |-> "vault-op", authPath |-> ""],
      [addr |-> BadAddr,  path |-> "secret/b", role |-> "vault-op", authPath |-> "k8s-dev"] }

NoSpec == [addr |-> "", path |-> "", role |-> "", authPath |-> ""]
NoRequest == [key |-> "", uid |-> 0, spec |-> NoSpec]

\* A Go interface{} value inside a Vault payload: a string (a sequence of
\* code points) or a nested map.
Str(s) == [t |-> "str", s |-> s, m |-> << >>]
Map(m) == [t |-> "map", s |-> << >>, m |-> m]

\* *vaultapi.Secret: nil, or a value with a Data map
NilSecret == [nil |-> TRUE, Data |-> << >>]
Payload(d) == [nil |-> FALSE, Data |-> d]

\* "hi", "hé"
PayKV2 == Payload(("data" :> Map(("user" :> Str(<<104, 105>>)) @@ ("pass" :> Str(<<104, 233>>))))
                  @@ ("metadata" :> Map(("version" :> Str(<<49>>)))))
PayKV2b == Payload(("data" :> Map(("user" :> Str(<<98>>)))))
\* KV version 1 payloads: no "data" sub-mapping; a field that is named "data"
PayKV1 == Payload(("user" :> Str(<<104, 105>>)))
PayKV1data == Payload(("data" :> Str(<<120>>)))
Payloads == {PayKV2, PayKV2b, PayKV1, PayKV1data, NilSecret}
\* What the mutable Vault path holds over time
VaultValues == {PayKV2, PayKV1data, NilSecret}

NoConfig == [Addr |-> "", AuthMethod |-> "", AuthPath |-> "", Role |-> "", Path |-> ""]
NoClient == [made |-> FALSE, token |-> 0]
NoResult == [requeue |-> FALSE, err |-> NoErr]
\* What one invocation did: calls made, the Secret it built, what it saw
\* What one invocation did and saw:
\*   reqGet .. create   calls made (Get VaultSecret, Get Secret, newVaultClient,
\*                      token file read, login, read, Create)
\*   reqSeen, seen      outcome of the two lookups
\*   vrsErr             the error VaultReadSecret returned
\*   data, created      data of the Secret handed to Create; Create succeeded
\*   loginTok, readTok  token returned by the login, token the read was made with
\*   reqAtStart         the VaultSecret existed when the invocation began
\*   secAtStart         a Secret of that name existed when the invocation began
\*   secDeleted         another actor removed the Secret during the invocation
\*   raced              another invocation for the same key was in flight, having
\*                      found the Secret absent, when this one had found it absent
\*   after              what the invocation before this one left (see last)
\*   nSecrets           Secrets of that name when the invocation returned
NoObs == [reqGet |-> 0, secGet |-> 0, newClient |-> 0, jwt |-> 0, login |-> 0,
          read |-> 0, create |-> 0, reqSeen |-> "none", seen |-> "none",
          vrsErr |-> NoErr, data |-> << >>, created |-> FALSE,
          loginTok |-> 0, readTok |-> 0,
          reqAtStart |-> FALSE, secAtStart |-> FALSE, secDeleted |-> FALSE,
          raced |-> FALSE,
          after |-> "never", nSecrets |-> 0]

VARIABLES
    requests,     \* VaultSecret objects in the cluster
    secrets,      \* core Secret objects in the cluster
    nextUid,      \* next UID the API server hands out to a VaultSecret
    vault,        \* Vault's content: path -> *vaultapi.Secret returned by Read
    issued,       \* the client token Vault issued last
    scheme,       \* r.Scheme knows the VaultSecret kind
    req,          \* worker -> key of the ctrl.Request ("" in a direct VaultReadSecret call)
    pc,           \* worker -> position in Reconcile / VaultReadSecret
    vaultSecret,  \* worker -> the VaultSecret read at line 81
    config,       \* worker -> VaultConfig
    client,       \* worker -> the Vault client of this VaultReadSecret call
    secData,      \* worker -> payload returned by VaultReadSecret
    vrsErr,       \* worker -> error returned by VaultReadSecret
    result,       \* worker -> (ctrl.Result, error) returned by Reconcile
    obs,          \* worker -> what the current (or last) invocation did
    last,         \* key -> how the invocation that returned last ended:
                  \*        "never": none has returned; "created": it created the Secret;
                  \*        "ok": it found the VaultSecret and returned no error;
                  \*        "failed": it found the VaultSecret and a lookup failed;
                  \*        "createFailed": its Create failed;
                  \*        "other": it did not find the VaultSecret;
                  \*        "gone": another actor removed the Secret since it returned
    exchanges     \* key -> logins and reads made for the VaultSecret of UID uid

vars == <<requests, secrets, nextUid, vault, issued, scheme, req, pc, vaultSecret,
          config, client, secData, vrsErr, result, obs, last, exchanges>>
cluster == <<requests, secrets, nextUid>>

\* ------------------------------------------------------------ pure helpers
RECURSIVE Bytes(_)
\* []byte(string): the UTF-8 encoding of the string's code points
Utf8(cp) == IF cp < 128 THEN <<cp>> ELSE <<192 + (cp \div 64), 128 + (cp % 64)>>
Bytes(s) == IF s = << >> THEN << >> ELSE Utf8(Head(s)) \o Bytes(Tail(s))

RequestOf(k) == {r \in requests : r.key = k}
SecretOf(k) == {s \in secrets : s.key = k}
UidLive(u) == \E r \in requests : r.uid = u
InFlight(w) ==
    pc[w] \notin {"idle", "done", "panicked", "killed", "vrsReturned", "smReturned"}

\* r.Get: the errors the API can answer with for an object that exists or not
GetErrs(exists) == IF exists THEN {NoErr, ErrApi} ELSE {ErrNotFound, ErrApi}

\* apierrors.IsNotFound
IsNotFound(err) == err = ErrNotFound

\* (mutant) every error of the lookup is returned, not-found included
IgnoreNotFoundKeepsAll(err) == err

\* client.IgnoreNotFound, line 86
IgnoreNotFound(err) == IF IsNotFound(err) THEN NoErr ELSE err

\* What a lookup saw
Seen(err) == IF err = NoErr THEN "found" ELSE IF IsNotFound(err) THEN "notfound" ELSE "error"

\* (mutant) a Secret that is found is fetched and created again
SecretBranchRefetches(err) ==
    IF err # NoErr /\ ~IsNotFound(err) THEN "fail" ELSE "fetch"

\* (mutant) an error of the lookup is taken for not-found
SecretBranchFetchesOnError(err) ==
    IF err # NoErr THEN "fetch" ELSE "done"

\* Lines 103-108 and 132: what Reconcile does with the error of the Secret lookup
SecretBranch(err) ==
    IF err # NoErr /\ ~IsNotFound(err) THEN "fail"
    ELSE IF IsNotFound(err) THEN "fetch"
    ELSE "done"

\* (mutant) an error of VaultReadSecret ends the invocation
FetchErrorReturns(err) == err # NoErr

\* Lines 111-113: an error of VaultReadSecret is logged; Reconcile goes on
FetchErrorAborts(err) == FALSE

\* (mutant) any auth method is let through
AuthMethodAny(m) == TRUE

\* Line 162
AuthMethodSupported(m) == m = defaultJWTAuthMethod

\* (mutant) no requeue after a successful Create
CreatedResultNoRequeue == [requeue |-> FALSE, err |-> NoErr]

\* Line 129: the Secret was created
CreatedResult == [requeue |-> TRUE, err |-> NoErr]

\* (mutant) a failed Create asks for a requeue
CreateFailedRequeues(err) == [requeue |-> TRUE, err |-> err]

\* Lines 123-126: the error of Create is returned, with an empty ctrl.Result
CreateFailedResult(err) == [requeue |-> FALSE, err |-> err]

\* (mutant) the token of the login is not set on the client
SetTokenKeepsOld(c, tok) == c

\* Line 190: client.SetToken(secret.Auth.ClientToken)
SetToken(c, tok) == [c EXCEPT !.token = tok]

\* (mutant) the write replaces a Secret that exists (an update in place)
ClientCreateOrUpdate(ss, s) ==
    [err |-> NoErr, secrets |-> {x \in ss : x.key # s.key} \cup {s}]

\* Line 122, r.Client.Create as the API server answers it: a Secret of that
\* name exists already, or s is stored
ClientCreate(ss, s) ==
    IF \E x \in ss : x.key = s.key THEN [err |-> ErrAlreadyExists, secrets |-> ss]
    ELSE [err |-> NoErr, secrets |-> ss \cup {s}]

\* Reconcile lines 89-98
MakeConfig(es) ==
    [Addr |-> es.spec.addr,
     Path |-> es.spec.path,
     Role |-> es.spec.role,
     AuthMethod |-> defaultJWTAuthMethod,
     AuthPath |-> IF Len(es.spec.authPath) > 0 THEN es.spec.authPath ELSE defaultAuthPath]

\* newVaultClient: vaultapi.NewClient fails on an address url.Parse rejects
newVaultClient(vaultConfig) ==
    IF vaultConfig.Addr = BadAddr THEN [made |-> FALSE, err |-> ErrNewClient]
    ELSE [made |-> TRUE, err |-> NoErr]

\* ctrl.SetControllerReference(es, s, r.Scheme): fails when the scheme does
\* not know the owner's kind; the owner reference is then not set
SetControllerReference(es, sch) ==
    IF sch THEN [owner |-> es.uid, err |-> NoErr] ELSE [owner |-> 0, err |-> ErrApi]

\* SecretMake lines 202-211: the type assertions v.(map[string]interface{})
\* and vv.(string) panic on a value of another type
SecretMakePanics(secret) ==
    /\ ~secret.nil
    /\ "data" \in DOMAIN secret.Data
    /\ \/ secret.Data["data"].t # "map"
       \/ \E kk \in DOMAIN secret.Data["data"].m : secret.Data["data"].m[kk].t # "str"

secObjData(secret) ==
    IF secret.nil \/ "data" \notin DOMAIN secret.Data THEN << >>
    ELSE [kk \in DOMAIN secret.Data["data"].m |-> Bytes(secret.Data["data"].m[kk].s)]

\* SecretMake lines 201-228; the error of SetControllerReference is dropped
\* and the returned error is always nil
SecretMake(es, secret, sch) ==
    [panic |-> SecretMakePanics(secret),
     err |-> NoErr,
     obj |-> [key |-> es.key,
              data |-> IF SecretMakePanics(secret) THEN << >> ELSE secObjData(secret),
              ann |-> <<APIVersion, Kind>>,
              owner |-> SetControllerReference(es, sch).owner]]

\* A Secret object as stored: the object built by SecretMake (or by another
\* actor) plus who created it, for which Request UID, and what the
\* VaultReadSecret call before it had returned (payload, error)
Stored(obj, who, uid, payload, err) ==
    [key |-> obj.key, data |-> obj.data, ann |-> obj.ann, owner |-> obj.owner,
     by |-> who, forUid |-> uid, fetched |-> payload, fetchFailed |-> err # NoErr]

\* ------------------------------------------------------------------- Init
Init ==
    /\ requests = {}
    /\ secrets = {}
    /\ nextUid = 1
    /\ vault = [p \in Paths |-> IF p = "secret/a" THEN PayKV2 ELSE PayKV2b]
    /\ issued = MaxToken
    /\ scheme \in BOOLEAN
    /\ req = [w \in Workers |-> ""]
    /\ pc = [w \in Workers |-> "idle"]
    /\ vaultSecret = [w \in Workers |-> NoRequest]
    /\ config = [w \in Workers |-> NoConfig]
    /\ client = [w \in Workers |-> NoClient]
    /\ secData = [w \in Workers |-> NilSecret]
    /\ vrsErr = [w \in Workers |-> NoErr]
    /\ result = [w \in Workers |-> NoResult]
    /\ obs = [w \in Workers |-> NoObs]
    /\ last = [k \in Keys |-> "never"]
    /\ exchanges = [k \in Keys |-> [uid |-> 0, login |-> 0, read |-> 0]]

\* ------------------------------------------------------- the environment
workerVars == <<req, pc, vaultSecret, config, client, secData, vrsErr, result>>

\* A user creates a VaultSecret
CreateRequest(k, sp) ==
    /\ RequestOf(k) = {}
    /\ nextUid <= MaxUid
    /\ requests' = requests \cup {[key |-> k, uid |-> nextUid, spec |-> sp]}
    /\ nextUid' = nextUid + 1
    /\ exchanges' = [exchanges EXCEPT ![k] = [uid |-> nextUid, login |-> 0, read |-> 0]]
    /\ UNCHANGED <<secrets, vault, issued, scheme, workerVars, obs, last>>

\* A user edits the spec of a VaultSecret
UpdateRequest(k, sp) ==
    /\ \E r \in RequestOf(k) :
          /\ r.spec # sp
          /\ requests' = (requests \ {r}) \cup {[r EXCEPT !.spec = sp]}
    /\ UNCHANGED <<secrets, nextUid, vault, issued, scheme, workerVars, obs, last, exchanges>>

\* A user deletes a VaultSecret
DeleteRequest(k) ==
    /\ RequestOf(k) # {}
    /\ requests' = requests \ RequestOf(k)
    /\ UNCHANGED <<secrets, nextUid, vault, issued, scheme, workerVars, obs, last, exchanges>>

\* Bookkeeping when the Secret of key k is removed by someone else
NoteDeleted(k) ==
    /\ obs' = [w \in Workers |->
                 IF req[w] = k /\ InFlight(w) THEN [obs[w] EXCEPT !.secDeleted = TRUE]
                 ELSE obs[w]]
    /\ last' = [last EXCEPT ![k] = IF @ = "never" THEN @ ELSE "gone"]

\* Another actor creates a Secret under the name of a VaultSecret
ExternalCreateSecret(k, d) ==
    /\ SecretOf(k) = {}
    /\ secrets' = secrets \cup
          {Stored([key |-> k, data |-> d, ann |-> << >>, owner |-> 0], "external", 0, NilSecret, NoErr)}
    /\ UNCHANGED <<requests, nextUid, vault, issued, scheme, workerVars, obs, last, exchanges>>

\* Another actor deletes the Secret
ExternalDeleteSecret(k) ==
    /\ SecretOf(k) # {}
    /\ secrets' = secrets \ SecretOf(k)
    /\ NoteDeleted(k)
    /\ UNCHANGED <<requests, nextUid, vault, issued, scheme, workerVars, exchanges>>

\* The garbage collector removes a Secret whose controller owner is gone
GarbageCollect(k) ==
    /\ \E s \in SecretOf(k) :
          /\ s.owner # 0
          /\ ~UidLive(s.owner)
          /\ secrets' = secrets \ {s}
    /\ NoteDeleted(k)
    /\ UNCHANGED <<requests, nextUid, vault, issued, scheme, workerVars, exchanges>>

\* The content of a Vault path changes
VaultWrite(p, v) ==
    /\ vault[p] # v
    /\ vault' = [vault EXCEPT ![p] = v]
    /\ UNCHANGED <<cluster, issued, scheme, workerVars, obs, last, exchanges>>

\* ------------------------------------------------------------- Reconcile
\* The locals of worker w go out of scope
DropLocals(w) ==
    /\ vaultSecret' = [vaultSecret EXCEPT ![w] = NoRequest]
    /\ config' = [config EXCEPT ![w] = NoConfig]
    /\ client' = [client EXCEPT ![w] = NoClient]
    /\ secData' = [secData EXCEPT ![w] = NilSecret]
    /\ vrsErr' = [vrsErr EXCEPT ![w] = NoErr]

\* Reconcile returns res for key k; o is what the invocation did
Finished(w, k, res, o) ==
    /\ result' = [result EXCEPT ![w] = res]
    /\ pc' = [pc EXCEPT ![w] = "done"]
    /\ obs' = [obs EXCEPT ![w] =
                 [o EXCEPT !.nSecrets = Cardinality({s \in secrets' : s.key = k})]]
    /\ last' = [last EXCEPT ![k] = IF o.created THEN "created"
                                  ELSE IF o.reqSeen # "found" THEN "other"
                                  ELSE IF res.err = NoErr THEN "ok"
                                  ELSE IF o.create > 0 THEN "createFailed"
                                  ELSE "failed"]
    /\ DropLocals(w)

\* Lines 75-98: r.Get of the VaultSecret and the Vault config
ReconcileBegin(w, k) ==
    /\ ~InFlight(w)
    /\ UNCHANGED <<cluster, vault, issued, scheme, exchanges>>
    /\ req' = [req EXCEPT ![w] = k]
    /\ LET o == [NoObs EXCEPT !.reqGet = 1, !.reqAtStart = RequestOf(k) # {},
                              !.secAtStart = SecretOf(k) # {}, !.after = last[k]] IN
       \E err \in GetErrs(RequestOf(k) # {}) :
          IF err # NoErr
          THEN Finished(w, k, [requeue |-> FALSE, err |-> IgnoreNotFound(err)],
                        [o EXCEPT !.reqSeen = Seen(err)])
          ELSE \E r \in RequestOf(k) :
                 /\ vaultSecret' = [vaultSecret EXCEPT ![w] = r]
                 /\ config' = [config EXCEPT ![w] = MakeConfig(r)]
                 /\ client' = [client EXCEPT ![w] = NoClient]
                 /\ secData' = [secData EXCEPT ![w] = NilSecret]
                 /\ vrsErr' = [vrsErr EXCEPT ![w] = NoErr]
                 /\ pc' = [pc EXCEPT ![w] = "getSecret"]
                 /\ obs' = [obs EXCEPT ![w] = [o EXCEPT !.reqSeen = "found"]]
                 /\ result' = [result EXCEPT ![w] = NoResult]
                 /\ UNCHANGED last

\* The work queue of the controller hands key k to one of its workers
RecGetRequest(w, k) ==
    /\ w \in 1..MaxConcurrentReconciles
    /\ ReconcileBegin(w, k)

\* Invocation v is in flight for the key of w and has found the Secret absent
Racing(v, w) ==
    v # w /\ req[v] = req[w] /\ InFlight(v) /\ obs[v].seen = "notfound"

\* Lines 100-108 and 132: r.Get of the child Secret
RecGetSecret(w) ==
    /\ pc[w] = "getSecret"
    /\ UNCHANGED <<cluster, vault, issued, scheme, req, exchanges>>
    /\ LET k == vaultSecret[w].key
           o == [obs[w] EXCEPT !.secGet = @ + 1] IN
       \E err \in GetErrs(SecretOf(k) # {}) :
          CASE SecretBranch(err) = "fail" ->
                 Finished(w, req[w], [requeue |-> FALSE, err |-> err], [o EXCEPT !.seen = Seen(err)])
            [] SecretBranch(err) = "fetch" ->
                 /\ pc' = [pc EXCEPT ![w] = "vrsNewClient"]
                 /\ obs' = [v \in Workers |->
                              IF v = w
                              THEN [o EXCEPT !.seen = Seen(err),
                                             !.raced = \E u \in Workers : Racing(u, w)]
                              ELSE IF Racing(v, w) THEN [obs[v] EXCEPT !.raced = TRUE]
                              ELSE obs[v]]
                 /\ UNCHANGED <<result, last, vaultSecret, config, client, secData, vrsErr>>
            [] OTHER ->
                 Finished(w, req[w], [requeue |-> FALSE, err |-> NoErr], [o EXCEPT !.seen = Seen(err)])

\* ------------------------------------------------------- VaultReadSecret
\* VaultReadSecret returns (data, err) to its caller
VRSReturn(w, data, err, o) ==
    /\ secData' = [secData EXCEPT ![w] = data]
    /\ vrsErr' = [vrsErr EXCEPT ![w] = err]
    /\ obs' = [obs EXCEPT ![w] = [o EXCEPT !.vrsErr = err]]
    /\ pc' = [pc EXCEPT ![w] = IF req[w] = "" THEN "vrsReturned" ELSE "make"]

\* Lines 154-164: newVaultClient and the check of the auth method
VRSNewClient(w) ==
    /\ pc[w] = "vrsNewClient"
    /\ LET c == newVaultClient(config[w])
           o == [obs[w] EXCEPT !.newClient = @ + 1] IN
       IF c.err # NoErr
       THEN VRSReturn(w, NilSecret, c.err, o) /\ UNCHANGED client
       ELSE /\ client' = [client EXCEPT ![w] = [made |-> TRUE, token |-> 0]]
            /\ IF ~AuthMethodSupported(config[w].AuthMethod)
               THEN VRSReturn(w, NilSecret, ErrUnsupported, o)
               ELSE /\ pc' = [pc EXCEPT ![w] = "vrsReadJWT"]
                    /\ obs' = [obs EXCEPT ![w] = o]
                    /\ UNCHANGED <<secData, vrsErr>>
    /\ UNCHANGED <<cluster, vault, issued, scheme, req, vaultSecret, config, result,
                   last, exchanges>>

\* Lines 166-177: ioutil.ReadFile of the service-account token
VRSReadJWT(w) ==
    /\ pc[w] = "vrsReadJWT"
    /\ LET o == [obs[w] EXCEPT !.jwt = @ + 1] IN
       \/ /\ pc' = [pc EXCEPT ![w] = "vrsLogin"]
          /\ obs' = [obs EXCEPT ![w] = o]
          /\ UNCHANGED <<secData, vrsErr>>
       \/ VRSReturn(w, NilSecret, ErrReadFile, o)
    /\ UNCHANGED <<cluster, vault, issued, scheme, req, vaultSecret, config, client,
                   result, last, exchanges>>

\* One more exchange made for the VaultSecret the worker reconciles
Exchange(w, kind) ==
    LET k == req[w] IN
    IF k # "" /\ exchanges[k].uid = vaultSecret[w].uid /\ exchanges[k][kind] < MaxCount
    THEN exchanges' = [exchanges EXCEPT ![k][kind] = @ + 1]
    ELSE UNCHANGED exchanges

\* The token Vault issues next
NextToken == (issued % MaxToken) + 1

\* Lines 179-190: the login exchange and client.SetToken
VRSLogin(w) ==
    /\ pc[w] = "vrsLogin"
    /\ Exchange(w, "login")
    /\ LET o == [obs[w] EXCEPT !.login = @ + 1] IN
       \/ /\ issued' = NextToken
          /\ client' = [client EXCEPT ![w] = SetToken(@, NextToken)]
          /\ pc' = [pc EXCEPT ![w] = "vrsRead"]
          /\ obs' = [obs EXCEPT ![w] = [o EXCEPT !.loginTok = NextToken]]
          /\ UNCHANGED <<secData, vrsErr>>
       \/ /\ VRSReturn(w, NilSecret, ErrLogin, o)
          /\ UNCHANGED <<issued, client>>
    /\ UNCHANGED <<cluster, vault, scheme, req, vaultSecret, config, result, last>>

\* Lines 191-197: the read exchange
VRSRead(w) ==
    /\ pc[w] = "vrsRead"
    /\ Exchange(w, "read")
    /\ LET o == [obs[w] EXCEPT !.read = @ + 1, !.readTok = client[w].token] IN
       \/ VRSReturn(w, vault[config[w].Path], NoErr, o)
       \/ VRSReturn(w, NilSecret, ErrRead, o)
    /\ UNCHANGED <<cluster, vault, issued, scheme, req, vaultSecret, config, client,
                   result, last>>

\* ----------------------------------------------- Reconcile, lines 110-130
\* A panic ends the process: every invocation in flight ends without a result
Crash(w) ==
    /\ pc' = [v \in Workers |-> IF v = w THEN "panicked"
                                ELSE IF InFlight(v) THEN "killed" ELSE pc[v]]
    /\ vaultSecret' = [v \in Workers |-> NoRequest]
    /\ config' = [v \in Workers |-> NoConfig]
    /\ client' = [v \in Workers |-> NoClient]
    /\ secData' = [v \in Workers |-> NilSecret]
    /\ vrsErr' = [v \in Workers |-> NoErr]
    /\ UNCHANGED <<result, obs, last>>

\* The error of VaultReadSecret is logged only; SecretMake; r.Client.Create
RecMakeCreate(w) ==
    /\ pc[w] = "make"
    /\ LET sm == SecretMake(vaultSecret[w], secData[w], scheme)
           k == sm.obj.key
           o == [obs[w] EXCEPT !.create = @ + 1, !.data = sm.obj.data] IN
       IF FetchErrorAborts(vrsErr[w])
       THEN UNCHANGED secrets
            /\ Finished(w, req[w], [requeue |-> FALSE, err |-> vrsErr[w]], obs[w])
       ELSE IF sm.panic
       THEN UNCHANGED secrets /\ Crash(w)
       ELSE IF sm.err # NoErr
       THEN UNCHANGED secrets
            /\ Finished(w, req[w], [requeue |-> FALSE, err |-> sm.err], obs[w])
       ELSE \/ LET c == ClientCreate(secrets, Stored(sm.obj, "Reconcile", vaultSecret[w].uid,
                                                     secData[w], vrsErr[w])) IN
               /\ secrets' = c.secrets
               /\ IF c.err = NoErr
                  THEN Finished(w, req[w], CreatedResult, [o EXCEPT !.created = TRUE])
                  ELSE Finished(w, req[w], CreateFailedResult(c.err), o)
            \/ /\ UNCHANGED secrets
               /\ Finished(w, req[w], CreateFailedResult(ErrApi), o)
    /\ UNCHANGED <<requests, nextUid, vault, issued, scheme, req, exchanges>>

\* -------------------------------------------- VaultReadSecret on its own
\* The VaultConfig values VaultReadSecret is called with
Configs ==
    [Addr : {GoodAddr, BadAddr}, AuthMethod : {"jwt", "approle", ""},
     AuthPath : {defaultAuthPath}, Role : {"vault-op"}, Path : Paths]

\* Line 154: a caller other than Reconcile calls VaultReadSecret(cfg)
CallVaultReadSecret(w, cfg) ==
    /\ ~InFlight(w)
    /\ req' = [req EXCEPT ![w] = ""]
    /\ config' = [config EXCEPT ![w] = cfg]
    /\ pc' = [pc EXCEPT ![w] = "vrsNewClient"]
    /\ client' = [client EXCEPT ![w] = NoClient]
    /\ secData' = [secData EXCEPT ![w] = NilSecret]
    /\ vrsErr' = [vrsErr EXCEPT ![w] = NoErr]
    /\ obs' = [obs EXCEPT ![w] = NoObs]
    /\ UNCHANGED <<cluster, vault, issued, scheme, vaultSecret, result, last, exchanges>>

NextVRS ==
    \/ \E w \in Workers, cfg \in Configs : CallVaultReadSecret(w, cfg)
    \/ \E w \in Workers : VRSNewClient(w)
    \/ \E w \in Workers : VRSReadJWT(w)
    \/ \E w \in Workers : VRSLogin(w)
    \/ \E w \in Workers : VRSRead(w)
    \/ \E v \in VaultValues : VaultWrite("secret/a", v)

SpecVRS == Init /\ [][NextVRS]_vars

\* ------------------------------------------------- SecretMake on its own
\* The *vaultapi.Secret values SecretMake is called with: nil, or a Data map
\* with or without a "data" and a "metadata" entry; the "data" entry is a
\* string or a map whose values are strings or maps
InnerValues == {Str(<< >>), Str(<<104, 233>>), Map(<< >>)}
DataMaps == UNION {[D -> InnerValues] : D \in SUBSET {"user", "pass"}}
DataValues == {Str(<<120>>)} \cup {Map(m) : m \in DataMaps}
MetaValues == {Str(<<49>>), Map(("user" :> Str(<<50>>)))}
MakeData ==
    {<< >>} \cup {("data" :> d) : d \in DataValues}
            \cup {("metadata" :> m) : m \in MetaValues}
            \cup {("data" :> d) @@ ("metadata" :> m) : d \in DataValues, m \in MetaValues}
MakePayloads == Payloads \cup {Payload(d) : d \in MakeData}
\* The VaultSecret objects SecretMake is called with
MakeOwners ==
    {[key |-> k, uid |-> u,
      spec |-> [addr |-> GoodAddr, path |-> "secret/a", role |-> "vault-op", authPath |-> ""]] :
        k \in Keys, u \in 1..MaxUid}

\* Line 201: a caller calls SecretMake(es, secret)
CallSecretMake(w, es, secret) ==
    /\ ~InFlight(w)
    /\ req' = [req EXCEPT ![w] = ""]
    /\ vaultSecret' = [vaultSecret EXCEPT ![w] = es]
    /\ secData' = [secData EXCEPT ![w] = secret]
    /\ pc' = [pc EXCEPT ![w] = "smCalled"]
    /\ obs' = [obs EXCEPT ![w] = NoObs]
    /\ UNCHANGED <<cluster, vault, issued, scheme, config, client, vrsErr, result, last,
                   exchanges>>

\* Lines 202-227: SecretMake returns the Secret it built, or panics in a
\* type assertion
SecretMakeReturn(w) ==
    /\ pc[w] = "smCalled"
    /\ LET sm == SecretMake(vaultSecret[w], secData[w], scheme) IN
       IF sm.panic
       THEN pc' = [pc EXCEPT ![w] = "panicked"] /\ UNCHANGED obs
       ELSE /\ pc' = [pc EXCEPT ![w] = "smReturned"]
            /\ obs' = [obs EXCEPT ![w] = [@ EXCEPT !.data = sm.obj.data]]
    /\ UNCHANGED <<cluster, vault, issued, scheme, req, vaultSecret, config, client,
                   secData, vrsErr, result, last, exchanges>>

\* SecretMake shares nothing between calls: one caller calls it again and again
NextMake ==
    \/ \E w \in {1}, es \in MakeOwners, secret \in MakePayloads :
          CallSecretMake(w, es, secret)
    \/ \E w \in Workers : SecretMakeReturn(w)

SpecMake == Init /\ [][NextMake]_vars

\* ------------------------------------- Reconcile called by several callers
\* Reconcile is an exported method: callers other than the controller's one
\* worker may run it for the same key at the same time.  Each caller calls
\* it once.
CallReconcile(w, k) ==
    /\ pc[w] = "idle"
    /\ ReconcileBegin(w, k)

NextConc ==
    \/ \E k \in Keys, sp \in RequestSpecs : CreateRequest(k, sp)
    \/ \E k \in Keys : ExternalCreateSecret(k, ("user" :> <<120>>))
    \/ \E k \in Keys : ExternalDeleteSecret(k)
    \/ \E v \in VaultValues : VaultWrite("secret/a", v)
    \/ \E w \in Workers, k \in Keys : CallReconcile(w, k)
    \/ \E w \in Workers : RecGetSecret(w)
    \/ \E w \in Workers : VRSNewClient(w)
    \/ \E w \in Workers : VRSReadJWT(w)
    \/ \E w \in Workers : VRSLogin(w)
    \/ \E w \in Workers : VRSRead(w)
    \/ \E w \in Workers : RecMakeCreate(w)

SpecConc == Init /\ [][NextConc]_vars

\* ------------------------------------------------------------------ Next
Next ==
    \/ \E k \in Keys, sp \in RequestSpecs : CreateRequest(k, sp)
    \/ \E k \in Keys, sp \in RequestSpecs : UpdateRequest(k, sp)
    \/ \E k \in Keys : DeleteRequest(k)
    \/ \E k \in Keys : ExternalCreateSecret(k, ("user" :> <<120>>))
    \/ \E k \in Keys : ExternalDeleteSecret(k)
    \/ \E k \in Keys : GarbageCollect(k)
    \/ \E v \in VaultValues : VaultWrite("secret/a", v)
    \/ \E w \in Workers, k \in Keys : RecGetRequest(w, k)
    \/ \E w \in Workers : RecGetSecret(w)
    \/ \E w \in Workers : VRSNewClient(w)
    \/ \E w \in Workers : VRSReadJWT(w)
    \/ \E w \in Workers : VRSLogin(w)
    \/ \E w \in Workers : VRSRead(w)
    \/ \E w \in Workers : RecMakeCreate(w)

Spec == Init /\ [][Next]_vars

\* The garbage collector runs: a Secret it may collect is collected
FairSpec == Spec /\ WF_vars(\E k \in Keys : GarbageCollect(k))

\* ------------------------------------------------------------ properties
Done(w) == pc[w] = "done"
NoVaultCalls(o) == o.newClient = 0 /\ o.jwt = 0 /\ o.login = 0 /\ o.read = 0
LookupFailed(o) == o.reqSeen = "error" \/ o.seen = "error"

\* C1 as stated: a second invocation for an existing Request, begun after an
\* earlier one returned and with no removal of the Secret by another actor
\* in between, leaves exactly one Secret and makes no login and no read.
C1_AsStated ==
    \A w \in Workers :
        (Done(w) /\ obs[w].reqSeen = "found" /\ ~obs[w].secDeleted
                 /\ obs[w].after \in {"created", "ok", "failed", "createFailed"})
        => (obs[w].nSecrets = 1 /\ obs[w].login = 0 /\ obs[w].read = 0)

\* C1 amended: the same for a second invocation that follows one which found
\* the Request and returned no error.
C1_Idempotent ==
    \A w \in Workers :
        (Done(w) /\ ~obs[w].secDeleted /\ obs[w].after \in {"created", "ok"})
        => (obs[w].nSecrets = 1 /\ obs[w].login = 0 /\ obs[w].read = 0)

C1_Witness ==
    \E w \in Workers :
        /\ Done(w) /\ ~obs[w].secDeleted /\ obs[w].after = "created"
        /\ obs[w].seen = "found" /\ obs[w].nSecrets = 1

\* C2 as stated: an invocation made while a Secret of the key's name exists
\* makes no Vault call and no Create, and returns (requeue=false, no error).
C2_AsStated ==
    \A w \in Workers :
        (Done(w) /\ obs[w].secAtStart /\ ~obs[w].secDeleted)
        => (NoVaultCalls(obs[w]) /\ obs[w].create = 0 /\ result[w] = NoResult)

\* C2 amended: such an invocation makes no Vault call and no Create and
\* returns requeue=false; its error is nil unless one of its two lookups
\* failed, and then it is that lookup's error.
C2_NoOpOnExisting ==
    \A w \in Workers :
        (Done(w) /\ obs[w].secAtStart /\ ~obs[w].secDeleted)
        => /\ NoVaultCalls(obs[w]) /\ obs[w].create = 0
           /\ obs[w].nSecrets = 1
           /\ ~result[w].requeue
           /\ result[w].err = IF LookupFailed(obs[w]) THEN ErrApi ELSE NoErr

C2_Witness ==
    \E w \in Workers :
        /\ Done(w) /\ obs[w].secAtStart /\ ~obs[w].secDeleted /\ obs[w].seen = "found"
        /\ result[w] = NoResult
        /\ \E s \in SecretOf(req[w]) : s.by = "external"

\* C3 as stated: an invocation for a key without a Request returns
\* (requeue=false, no error) and makes no further call.
C3_AsStated ==
    \A w \in Workers :
        (Done(w) /\ ~obs[w].reqAtStart)
        => /\ result[w] = NoResult
           /\ obs[w].secGet = 0 /\ NoVaultCalls(obs[w]) /\ obs[w].create = 0

\* C3 amended: such an invocation makes no further call and returns
\* requeue=false; it returns no error when the lookup answers not-found, and
\* the lookup's error when the lookup fails otherwise.
C3_AbsentRequest ==
    \A w \in Workers :
        (Done(w) /\ ~obs[w].reqAtStart)
        => /\ ~result[w].requeue
           /\ result[w].err = IF obs[w].reqSeen = "notfound" THEN NoErr ELSE ErrApi
           /\ obs[w].secGet = 0 /\ NoVaultCalls(obs[w]) /\ obs[w].create = 0

C3_Witness ==
    \E w \in Workers :
        /\ Done(w) /\ ~obs[w].reqAtStart /\ obs[w].reqSeen = "notfound"
        /\ result[w] = NoResult /\ obs[w].secGet = 0

\* C4: an invocation that found the Secret absent and whose VaultReadSecret
\* failed to read the token, rejected the auth method or failed to log in
\* returns a non-nil error.
C4_AuthFailureSurfaced ==
    \A w \in Workers :
        (Done(w) /\ obs[w].seen = "notfound"
                 /\ obs[w].vrsErr \in {ErrReadFile, ErrUnsupported, ErrLogin})
        => result[w].err # NoErr

\* C5: when the read exchange fails after a successful login, Reconcile goes
\* on, hands a Secret with empty data to Create and, if Create succeeds,
\* returns (requeue=true, no error).
C5_FetchFailureContinues ==
    \A w \in Workers :
        (Done(w) /\ obs[w].seen = "notfound" /\ obs[w].vrsErr = ErrRead)
        => /\ obs[w].login = 1 /\ obs[w].loginTok # 0 /\ obs[w].read = 1
           /\ obs[w].create = 1
           /\ obs[w].data = << >>
           /\ obs[w].created => (result[w] = [requeue |-> TRUE, err |-> NoErr]
                                 /\ obs[w].nSecrets = 1)

C5_Witness ==
    \E w \in Workers :
        /\ Done(w) /\ obs[w].vrsErr = ErrRead /\ obs[w].created
        /\ result[w].requeue
        /\ \E s \in SecretOf(req[w]) : s.by = "Reconcile" /\ s.data = << >>

\* C6: every Secret created by Reconcile carries a controller owner
\* reference to the Request it was created for.
C6_OwnershipPropagation ==
    \A s \in secrets : s.by = "Reconcile" => (s.owner # 0 /\ s.owner = s.forUid)

\* C7: once the Request a Secret was created for is gone, the Secret is
\* eventually removed (the garbage collector being fair), and an invocation
\* begun when the Request is gone creates nothing.
OrphanOf(k) == {s \in SecretOf(k) : s.by = "Reconcile" /\ ~UidLive(s.forUid)}
C7_CascadeRemoval ==
    /\ \A k \in Keys : (OrphanOf(k) # {}) ~> (OrphanOf(k) = {})
    /\ [](\A w \in Workers : (Done(w) /\ ~obs[w].reqAtStart) => ~obs[w].created)

\* C8 as stated: an invocation that creates the Secret returns requeue=true,
\* and the invocation that follows it (no removal in between) returns
\* (requeue=false, no error).
C8_AsStated ==
    \A w \in Workers :
        Done(w) =>
          /\ obs[w].created => result[w].requeue
          /\ (obs[w].after = "created" /\ ~obs[w].secDeleted) => result[w] = NoResult

\* C8 amended: an invocation that creates the Secret returns (requeue=true,
\* no error); the invocation that follows it returns requeue=false and
\* creates nothing, and its error is nil unless one of its lookups failed.
C8_RequeueTerminates ==
    \A w \in Workers :
        Done(w) =>
          /\ obs[w].created => result[w] = [requeue |-> TRUE, err |-> NoErr]
          /\ (obs[w].after = "created" /\ ~obs[w].secDeleted) =>
                /\ ~result[w].requeue
                /\ obs[w].create = 0
                /\ result[w].err = IF LookupFailed(obs[w]) THEN ErrApi ELSE NoErr

C8_Witness ==
    \E w \in Workers :
        /\ Done(w) /\ obs[w].after = "created" /\ ~obs[w].secDeleted
        /\ obs[w].reqSeen = "found" /\ obs[w].seen = "found"
        /\ result[w] = NoResult

\* C9 as stated: at most one login and at most one read are ever made for a
\* Request.
C9_AsStated ==
    \A k \in Keys : exchanges[k].login <= 1 /\ exchanges[k].read <= 1

\* C9 amended: one invocation makes at most one login and at most one read,
\* and makes neither (nor reads the token) unless its lookup found the
\* Secret absent.
C9_FetchPerInvocation ==
    \A w \in Workers :
        /\ obs[w].login <= 1 /\ obs[w].read <= 1 /\ obs[w].read <= obs[w].login
        /\ (req[w] # "" /\ obs[w].seen # "notfound") => NoVaultCalls(obs[w])

C9_Witness ==
    \E w \in Workers, k \in Keys :
        /\ Done(w) /\ req[w] = k /\ obs[w].login = 1 /\ obs[w].read = 1
        /\ exchanges[k].login = 2

\* C10 as stated: VaultReadSecret with an auth method other than "jwt"
\* returns the unsupported-method error and a nil payload, and neither reads
\* the token nor logs in nor reads.
C10_AsStated ==
    \A w \in Workers :
        (pc[w] = "vrsReturned" /\ config[w].AuthMethod # defaultJWTAuthMethod)
        => /\ vrsErr[w] = ErrUnsupported
           /\ secData[w] = NilSecret
           /\ obs[w].jwt = 0 /\ obs[w].login = 0 /\ obs[w].read = 0

\* C10 amended: such a call returns an error and a nil payload and neither
\* reads the token nor logs in nor reads; the error is the unsupported-method
\* error unless building the Vault client failed first, and then it is the
\* client's error.
C10_MethodGating ==
    \A w \in Workers :
        (pc[w] = "vrsReturned" /\ config[w].AuthMethod # defaultJWTAuthMethod)
        => /\ vrsErr[w] = IF newVaultClient(config[w]).err # NoErr
                          THEN newVaultClient(config[w]).err ELSE ErrUnsupported
           /\ secData[w] = NilSecret
           /\ obs[w].jwt = 0 /\ obs[w].login = 0 /\ obs[w].read = 0

C10_Witness ==
    \E w \in Workers :
        /\ pc[w] = "vrsReturned" /\ config[w].AuthMethod = "approle"
        /\ vrsErr[w] = ErrUnsupported /\ obs[w].newClient = 1

\* The "data" sub-mapping of a payload (empty for a nil payload and for a
\* payload without a "data" entry)
SubMapping(secret) ==
    IF secret.nil \/ "data" \notin DOMAIN secret.Data THEN << >>
    ELSE secret.Data["data"].m

\* C11: for every payload SecretMake is called with, it returns a Secret
\* whose data map has exactly the keys of the payload's "data" sub-mapping,
\* each mapped to the bytes of its string value; a nil payload and a payload
\* without a "data" entry give the empty map.
C11_DataMapping ==
    \A w \in Workers :
        (req[w] = "" /\ pc[w] \in {"smReturned", "panicked"})
        => /\ pc[w] = "smReturned"
           /\ DOMAIN obs[w].data = DOMAIN SubMapping(secData[w])
           /\ \A kk \in DOMAIN obs[w].data :
                 /\ SubMapping(secData[w])[kk].t = "str"
                 /\ obs[w].data[kk] = Bytes(SubMapping(secData[w])[kk].s)

\* An invocation of Reconcile that has ended, by a return or in a panic
Ended(w) == req[w] # "" /\ pc[w] \in {"done", "panicked"}
\* It found the Request present and the Secret absent
ReachedFetch(o) == o.reqSeen = "found" /\ o.seen = "notfound"

\* C12 as stated: every invocation that finds the Request present and the
\* Secret absent makes exactly one login, exactly one read and exactly one
\* Create call.
C12_AsStated ==
    \A w \in Workers :
        (Ended(w) /\ ReachedFetch(obs[w]))
        => (obs[w].login = 1 /\ obs[w].read = 1 /\ obs[w].create = 1)

\* C12 amended: such an invocation builds one Vault client and makes at most
\* one login, at most one read and at most one Create call: a login exactly
\* when the client was built and the token file was read, a read exactly
\* when the login succeeded, and a Create exactly when SecretMake returned
\* (whatever VaultReadSecret returned).
C12_SideEffectCount ==
    \A w \in Workers :
        (Ended(w) /\ ReachedFetch(obs[w]))
        => /\ obs[w].newClient = 1
           /\ obs[w].jwt = (IF obs[w].vrsErr = ErrNewClient THEN 0 ELSE 1)
           /\ obs[w].login = (IF obs[w].vrsErr \in {ErrNewClient, ErrReadFile} THEN 0 ELSE 1)
           /\ obs[w].read = (IF obs[w].vrsErr \in {ErrNewClient, ErrReadFile, ErrLogin}
                             THEN 0 ELSE 1)
           /\ obs[w].create = (IF pc[w] = "panicked" THEN 0 ELSE 1)

C12_Witness ==
    \E w \in Workers :
        /\ Done(w) /\ ReachedFetch(obs[w]) /\ obs[w].vrsErr = ErrLogin
        /\ obs[w].login = 1 /\ obs[w].read = 0 /\ obs[w].create = 1

\* C13: within one VaultReadSecret call the token file is read before the
\* login and the login is made before the read; a read is made only after
\* the login of the same call succeeded and with the token that login
\* returned; a failed token read or a failed login ends the call with that
\* error, a nil payload and no read.
C13_LoginBeforeRead ==
    \A w \in Workers :
        /\ obs[w].login > 0 => (obs[w].jwt = 1 /\ obs[w].newClient = 1)
        /\ pc[w] = "vrsRead" => (obs[w].login = 1 /\ obs[w].loginTok # 0
                                  /\ client[w].token = obs[w].loginTok)
        /\ obs[w].read > 0 => /\ obs[w].login = 1 /\ obs[w].read = 1
                               /\ obs[w].loginTok # 0
                               /\ obs[w].readTok = obs[w].loginTok
        /\ (pc[w] = "vrsReturned" /\ obs[w].vrsErr = ErrReadFile)
              => /\ vrsErr[w] = ErrReadFile /\ secData[w] = NilSecret
                 /\ obs[w].login = 0 /\ obs[w].read = 0
        /\ (pc[w] = "vrsReturned" /\ obs[w].vrsErr = ErrLogin)
              => /\ vrsErr[w] = ErrLogin /\ secData[w] = NilSecret
                 /\ obs[w].login = 1 /\ obs[w].loginTok = 0 /\ obs[w].read = 0

\* A call whose login was not the first one Vault answered has returned
\* after a read made with the token of its own login
C13_Witness ==
    \E w \in Workers :
        /\ pc[w] = "vrsReturned" /\ vrsErr[w] = NoErr /\ obs[w].read = 1
        /\ obs[w].loginTok = 2 /\ obs[w].readTok = 2

\* The Create call of the invocation failed
CreateFailed(o) == o.create = 1 /\ ~o.created

\* C14 as stated: an invocation whose Create fails returns that error with
\* requeue=false, creates no Secret and keeps nothing of what it fetched; the
\* invocation that follows it for the same key logs in and reads again.
C14_AsStated ==
    \A w \in Workers :
        /\ (Done(w) /\ CreateFailed(obs[w]))
              => /\ result[w].err \in {ErrAlreadyExists, ErrApi} /\ ~result[w].requeue
                 /\ secData[w] = NilSecret /\ client[w] = NoClient
        /\ (Done(w) /\ obs[w].after = "createFailed")
              => (obs[w].login = 1 /\ obs[w].read = 1)

\* C14 amended: an invocation whose Create fails returns that error with
\* requeue=false, creates no Secret and keeps nothing of what it fetched; the
\* invocation that follows it makes no Vault call unless it finds the Request
\* present and the Secret absent, and then it starts from scratch: it builds
\* a new client, reads the token file and logs in before any read, and reads
\* only with the token of its own login.
C14_CreateFailure ==
    \A w \in Workers :
        /\ (Done(w) /\ CreateFailed(obs[w]))
              => /\ result[w].err \in {ErrAlreadyExists, ErrApi} /\ ~result[w].requeue
                 /\ secData[w] = NilSecret /\ client[w] = NoClient
                 /\ result[w].err = ErrAlreadyExists => obs[w].nSecrets = 1
        /\ (Done(w) /\ obs[w].after = "createFailed")
              => IF ReachedFetch(obs[w])
                 THEN /\ obs[w].newClient = 1
                      /\ obs[w].vrsErr # ErrNewClient => obs[w].jwt = 1
                      /\ obs[w].vrsErr \notin {ErrNewClient, ErrReadFile} => obs[w].login = 1
                      /\ obs[w].vrsErr \in {NoErr, ErrRead}
                            => (obs[w].read = 1 /\ obs[w].loginTok # 0
                                /\ obs[w].readTok = obs[w].loginTok)
                 ELSE NoVaultCalls(obs[w]) /\ obs[w].create = 0

\* The invocation after a failed Create has fetched again and created the Secret
C14_Witness ==
    \E w \in Workers :
        /\ Done(w) /\ obs[w].after = "createFailed" /\ ReachedFetch(obs[w])
        /\ obs[w].login = 1 /\ obs[w].read = 1 /\ obs[w].created
        /\ obs[w].data # << >>

\* C15: an invocation whose lookup of the Secret fails with an error other
\* than not-found returns that error with requeue=false and makes no Vault
\* call and no Create call.
C15_SecretLookupFailure ==
    \A w \in Workers :
        (Done(w) /\ obs[w].seen = "error")
        => /\ result[w] = [requeue |-> FALSE, err |-> ErrApi]
           /\ obs[w].secGet = 1
           /\ NoVaultCalls(obs[w])
           /\ obs[w].create = 0 /\ ~obs[w].created

\* The lookup failed while the Secret was absent
C15_Witness ==
    \E w \in Workers :
        /\ Done(w) /\ obs[w].seen = "error" /\ ~obs[w].secAtStart
        /\ obs[w].nSecrets = 0 /\ result[w].err = ErrApi

\* A step of Reconcile or VaultReadSecret: the other actors leave the
\* workers' variables alone
WorkerStep == workerVars' # workerVars
\* The invocation of w hands its Secret to Create in this step
CreateStep(w) == pc[w] = "make" /\ pc'[w] = "done" /\ obs'[w].create = 1

\* C16: a step of Reconcile leaves the Requests as they are and writes
\* nothing but, in its Create step, one new Secret under a name that had
\* none; every Secret stays exactly as it is (data, annotations, owner) in
\* every step, whatever happens to the Request or to Vault, unless another
\* actor removes it.
C16_OneWayFrame ==
    [][ /\ WorkerStep =>
             /\ requests' = requests
             /\ secrets \subseteq secrets'
             /\ Cardinality(secrets' \ secrets) <= 1
             /\ \A s \in secrets' \ secrets :
                   /\ SecretOf(s.key) = {}
                   /\ s.by = "Reconcile"
                   /\ \E w \in Workers : CreateStep(w) /\ obs'[w].created
        /\ \A s \in secrets :
             \/ s \in secrets'
             \/ ~WorkerStep /\ {x \in secrets' : x.key = s.key} = {}
      ]_vars

\* A later invocation has returned, the Secret it found is the one Reconcile
\* created from Vault's earlier content, and Vault's content and the
\* Request's path have changed since
C16_Witness ==
    \E w \in Workers :
        /\ Done(w) /\ obs[w].after \in {"created", "ok"} /\ obs[w].seen = "found"
        /\ obs[w].create = 0
        /\ vault["secret/a"] # PayKV2
        /\ \E r \in RequestOf(req[w]) : r.spec.path = "secret/b"
        /\ \E s \in SecretOf(req[w]) :
              s.by = "Reconcile" /\ s.data = secObjData(PayKV2) /\ s.owner = s.forUid

\* Two invocations for one key that both found the Secret absent while both
\* were in flight, and that have both returned
RacedPair(w, v) ==
    /\ w # v /\ req[w] # "" /\ req[w] = req[v]
    /\ obs[w].raced /\ obs[v].raced
\* The data map the claim expects for a payload
Expected(secret) ==
    [kk \in DOMAIN SubMapping(secret) |-> Bytes(SubMapping(secret)[kk].s)]
\* At most one Secret per key; the data of a Secret that Reconcile created
\* is that of the payload its invocation had fetched
OnePerKey ==
    /\ \A k \in Keys : Cardinality(SecretOf(k)) <= 1
    /\ \A s \in secrets : s.by = "Reconcile" => s.data = Expected(s.fetched)

\* C17 as stated: when two invocations for one key both find the Secret
\* absent, both log in and read, exactly one Create succeeds and the other
\* invocation returns the Create error with requeue=false; at most one Secret
\* exists per key, with the data fetched by the invocation that created it.
C17_AsStated ==
    /\ OnePerKey
    /\ \A w, v \in Workers :
          (RacedPair(w, v) /\ Done(w) /\ Done(v))
          => /\ obs[w].login = 1 /\ obs[w].read = 1
             /\ obs[w].created # obs[v].created
             /\ ~obs[w].created => (result[w].err \in {ErrAlreadyExists, ErrApi}
                                     /\ ~result[w].requeue)

\* C17 amended: both invocations call VaultReadSecret (each logs in unless
\* its client or token read fails, and reads exactly when its own login
\* succeeded) and each that returns has made one Create call; at most one
\* Create succeeds unless another actor removes the Secret in between; an
\* invocation whose Create fails returns that error with requeue=false; at
\* most one Secret exists per key, with the data fetched by the invocation
\* that created it.
C17_SameKeyInterleaving ==
    /\ OnePerKey
    /\ \A w, v \in Workers :
          (RacedPair(w, v) /\ ~InFlight(w) /\ ~InFlight(v)
             /\ ~obs[w].secDeleted /\ ~obs[v].secDeleted)
          => ~(obs[w].created /\ obs[v].created)
    /\ \A w \in Workers :
          (Done(w) /\ obs[w].raced)
          => /\ obs[w].newClient = 1 /\ obs[w].create = 1
             /\ obs[w].login = (IF obs[w].vrsErr \in {ErrNewClient, ErrReadFile} THEN 0 ELSE 1)
             /\ obs[w].read = (IF obs[w].loginTok # 0 THEN 1 ELSE 0)
             /\ IF obs[w].created
                THEN result[w] = [requeue |-> TRUE, err |-> NoErr]
                ELSE result[w].err \in {ErrAlreadyExists, ErrApi} /\ ~result[w].requeue

\* Both fetched, one created the Secret from what it fetched, the other was
\* refused by the API server
C17_Witness ==
    \E w, v \in Workers :
        /\ RacedPair(w, v) /\ Done(w) /\ Done(v)
        /\ obs[w].read = 1 /\ obs[v].read = 1
        /\ obs[w].created /\ obs[w].data # << >> /\ obs[w].data # obs[v].data
        /\ result[v] = [requeue |-> FALSE, err |-> ErrAlreadyExists]
        /\ \E s \in SecretOf(req[w]) : s.by = "Reconcile" /\ s.data = obs[w].data

\* C18: whenever Reconcile returns (requeue=false, no error) for a Request
\* that exists, the Secret of that name is owned by that very Request; stated
\* for a Scheme that knows the Request's kind and for a Secret that Reconcile
\* itself created, which covers a Request deleted and re-created under the
\* same name before the first Request's Secret is collected.
C18_ConvergedMeansOwned ==
    [][ \A w \in Workers :
          (/\ pc[w] = "getSecret" /\ pc'[w] = "done"
           /\ result'[w] = [requeue |-> FALSE, err |-> NoErr]
           /\ scheme
           /\ vaultSecret[w] \in requests'
           /\ \A s \in SecretOf(req[w]) : s.by = "Reconcile")
          => \E s \in secrets' : s.key = req[w] /\ s.owner = vaultSecret[w].uid
      ]_vars

\* C19: a Secret that Reconcile created after a failed VaultReadSecret call
\* has empty data, and every step of every invocation leaves it exactly as
\* it is; it goes away only when another actor removes it.
C19_EmptyIsPermanent ==
    [][ \A s \in secrets :
          (s.by = "Reconcile" /\ s.fetchFailed)
          => /\ s.data = << >>
             /\ \/ s \in secrets'
                \/ ~WorkerStep /\ {x \in secrets' : x.key = s.key} = {}
      ]_vars

\* A later invocation has found the empty Secret and returned while Vault
\* holds data for the Request
C19_Witness ==
    \E w \in Workers :
        /\ Done(w) /\ obs[w].seen = "found" /\ result[w] = NoResult
        /\ \E s \in SecretOf(req[w]) :
              /\ s.by = "Reconcile" /\ s.fetchFailed /\ s.data = << >>
              /\ \E r \in RequestOf(req[w]) :
                    /\ r.uid = s.forUid /\ r.spec.addr = GoodAddr
                    /\ Expected(vault[r.spec.path]) # << >>

\* C20: an invocation returns requeue=true exactly when its Create
\* succeeded; when it returns an error it has created no Secret and requeue
\* is false.
C20_ResultEffectAgreement ==
    \A w \in Workers :
        (Done(w) /\ req[w] # "")
        => /\ result[w].requeue <=> obs[w].created
           /\ obs[w].created => (obs[w].create = 1 /\ obs[w].nSecrets = 1)
           /\ result[w].err # NoErr => (~obs[w].created /\ ~result[w].requeue)

\* A Create that succeeded with fetched data, answered with requeue=true
C20_Witness ==
    \E w \in Workers :
        /\ Done(w) /\ obs[w].created /\ obs[w].vrsErr = NoErr /\ obs[w].data # << >>
        /\ result[w] = [requeue |-> TRUE, err |-> NoErr]
        /\ obs[w].nSecrets = 1

====
